---- MODULE Spec2Model ----
(***************************************************************************)
(* A model of mpyq.py, the MPQ archive reader: MPQArchive.__init__ (open), *)
(* read_header, read_table, get_hash_table_entry, get_file_key, read_file,  *)
(* extract, _hash, _decrypt and the encryption table.                       *)
(*                                                                         *)
(* Integers.  Python integers are unbounded and the archive's fields are   *)
(* unsigned 32-bit, while TLC's integers are 32-bit signed.  An integer n  *)
(* of the program is therefore the pair <<hi, lo>> with                    *)
(*        n = hi * 2^16 + lo,   0 <= lo < 2^16,   hi any (signed) integer, *)
(* which is unique for every n, so equality of pairs is equality of the    *)
(* integers.  In two's complement lo holds bits 0..15 of n and hi the bits *)
(* from 16 up, so Python's bitwise operators act on the two halves         *)
(* separately.  Small integers (lengths, positions in the byte source,     *)
(* loop indices) stay TLC integers.                                        *)
(*                                                                         *)
(* Bytes.  A bytes object is a sequence of integers in 0..255; a str is a  *)
(* sequence of code points.                                                *)
(***************************************************************************)
EXTENDS Integers, Sequences, FiniteSets, TLC

----------------------------------------------------------------------------
(* Python's integer operators                                              *)

RECURSIVE BitAnd(_, _)
\* x & y on signed integers (infinite two's complement, as in Python).
BitAnd(x, y) ==
    IF x = 0 \/ y = 0 THEN 0
    ELSE IF x = -1 THEN y
    ELSE IF y = -1 THEN x
    ELSE 2 * BitAnd(x \div 2, y \div 2) + ((x % 2) * (y % 2))

RECURSIVE BitOr(_, _)
\* x | y on signed integers.
BitOr(x, y) ==
    IF x = 0 THEN y
    ELSE IF y = 0 THEN x
    ELSE IF x = -1 \/ y = -1 THEN -1
    ELSE 2 * BitOr(x \div 2, y \div 2) + (IF x % 2 = 1 \/ y % 2 = 1 THEN 1 ELSE 0)

RECURSIVE BitXor(_, _)
\* x ^ y on signed integers.
BitXor(x, y) ==
    IF x = 0 THEN y
    ELSE IF y = 0 THEN x
    ELSE IF x = -1 THEN -y - 1
    ELSE IF y = -1 THEN -x - 1
    ELSE 2 * BitXor(x \div 2, y \div 2) + ((x + y) % 2)

\* The pair of a small integer n.
W(n) == <<n \div 2^16, n % 2^16>>

\* The pair of the 32-bit literal whose upper and lower 16 bits are hi and lo
\* (0x7FED7FED is Lit(32749, 32749)).
Lit(hi, lo) == <<hi, lo>>

\* a + b
Add(a, b) == <<a[1] + b[1] + ((a[2] + b[2]) \div 2^16), (a[2] + b[2]) % 2^16>>

\* a - b
Sub(a, b) == <<a[1] - b[1] + ((a[2] - b[2]) \div 2^16), (a[2] - b[2]) % 2^16>>

\* ~a, which is -a - 1
Not(a) == <<-a[1] - 1, 2^16 - 1 - a[2]>>

\* a & b, a | b, a ^ b
And(a, b) == <<BitAnd(a[1], b[1]), BitAnd(a[2], b[2])>>
Or(a, b) == <<BitOr(a[1], b[1]), BitOr(a[2], b[2])>>
Xor(a, b) == <<BitXor(a[1], b[1]), BitXor(a[2], b[2])>>

\* a << k for 0 <= k <= 14 (exact: the upper half grows).
Shl(a, k) == <<a[1] * 2^k + ((a[2] * 2^k) \div 2^16), (a[2] * 2^k) % 2^16>>

\* a >> k for 0 <= k <= 16: the floor of a / 2^k, as Python shifts negative
\* integers too.
Shr(a, k) == W(a[1] * 2^(16 - k) + (a[2] \div 2^k))

\* a < b, a > b
Less(a, b) == a[1] < b[1] \/ (a[1] = b[1] /\ a[2] < b[2])
Greater(a, b) == Less(b, a)

\* a & 0xFFFFFFFF: the lower 16 bits of the upper half are kept (this is
\* And(a, Lit(2^16 - 1, 2^16 - 1)), computed without the bit recursion).
Mask32(a) == <<a[1] % 2^16, a[2]>>

\* True of the integers in [0, 2^32).
IsU32(a) == a[1] >= 0 /\ a[1] < 2^16

\* The integer of a pair that is a small non-negative integer (below 2^24),
\* and Huge for every other non-negative one: lengths and positions from
\* Huge on behave alike, no byte source of the model being that long.
Huge == 2^24
ToNat(a) == IF a[1] >= 2^8 THEN Huge ELSE a[1] * 2^16 + a[2]

----------------------------------------------------------------------------
(* bytes                                                                   *)

Min(x, y) == IF x < y THEN x ELSE y
Max(x, y) == IF x > y THEN x ELSE y

\* data[lo:hi] of Python for 0 <= lo, 0 <= hi: the slice is clamped to the
\* data and empty when hi <= lo.
Slice(data, lo, hi) ==
    IF Min(hi, Len(data)) <= lo THEN <<>>
    ELSE SubSeq(data, lo + 1, Min(hi, Len(data)))

\* struct.unpack("<I", b)[0] for four bytes b
unpack_I(b) == <<b[3] + 256 * b[4], b[1] + 256 * b[2]>>

\* struct.pack("<I", v) for v in [0, 2^32)
pack_I(v) == <<v[2] % 256, v[2] \div 256, v[1] % 256, v[1] \div 256>>

\* struct.unpack("<H", b)[0] for two bytes b, a small integer
unpack_H(b) == b[1] + 256 * b[2]

----------------------------------------------------------------------------
(* _prepare_encryption_table                                               *)

\* seed = (seed * 125 + 3) % 0x2AAAAB
NextSeed(seed) == (seed * 125 + 3) % 2796203

\* One pass of the outer loop, for i = Len(st.entries) / 5: the five entries
\* of that i are appended in the order the inner loop writes them, so that
\* the entry of index i + 0x100 * j is at position 5 * i + j + 1.
crypt_row(st) ==
    LET s1 == NextSeed(st.seed)  s2 == NextSeed(s1)
        s3 == NextSeed(s2)       s4 == NextSeed(s3)
        s5 == NextSeed(s4)       s6 == NextSeed(s5)
        s7 == NextSeed(s6)       s8 == NextSeed(s7)
        s9 == NextSeed(s8)       s10 == NextSeed(s9)
        \* temp1 | temp2: temp1 = (seed & 0xFFFF) << 0x10 is the upper half,
        \* temp2 = seed & 0xFFFF the lower
        e(a, b) == Lit(a % 2^16, b % 2^16)
    IN [seed |-> s10,
        entries |-> st.entries \o
            <<e(s1, s2), e(s3, s4), e(s5, s6), e(s7, s8), e(s9, s10)>>]

RECURSIVE crypt_rows(_, _)
\* The passes of the outer loop up to (not including) i = stop.
crypt_rows(st, stop) ==
    IF Len(st.entries) >= 5 * stop THEN st ELSE crypt_rows(crypt_row(st), stop)

RECURSIVE crypt_blocks(_)
\* for i in range(256), sixteen passes at a time (TLC's stack is shallow).
crypt_blocks(st) ==
    IF Len(st.entries) >= 5 * 256 THEN st
    ELSE crypt_blocks(crypt_rows(st, Len(st.entries) \div 5 + 16))

\* seed = 0x00100001
crypt_table == crypt_blocks([seed |-> 1048577, entries |-> <<>>]).entries

\* encryption_table[index]
encryption_table(index) == crypt_table[5 * (index % 256) + (index \div 256) + 1]

----------------------------------------------------------------------------
(* _hash                                                                   *)

\* hash_types
hash_types(hash_type) ==
    CASE hash_type = "TABLE_OFFSET" -> 0
      [] hash_type = "HASH_A" -> 1
      [] hash_type = "HASH_B" -> 2
      [] hash_type = "TABLE" -> 3
      [] hash_type = "HASH_NUM" -> 4

\* str.upper / bytes.upper on one ASCII character
upper(ch) == IF ch >= 97 /\ ch <= 122 THEN ch - 32 ELSE ch

\* One pass of the loop of _hash, for character st.i of string.upper().
hash_char(string, hash_type, st) ==
    LET ch == upper(string[st.i])
        \* seed2 = ch + seed1 + seed2 + (seed2 << 5) + 3 & 0xFFFFFFFF
        update(seed1) ==
            [i |-> st.i + 1,
             seed1 |-> seed1,
             seed2 |-> Mask32(Add(Add(Add(Add(W(ch), seed1), st.seed2),
                                      Shl(st.seed2, 5)), W(3)))]
        \* seed1 = (value ^ (seed1 + seed2)) & 0xFFFFFFFF
        mix(value) == update(Mask32(Xor(value, Add(st.seed1, st.seed2))))
    IN mix(encryption_table(hash_types(hash_type) * 2^8 + ch))

RECURSIVE hash_loop(_, _, _)
\* for ch in string.upper(), from character st.i on
hash_loop(string, hash_type, st) ==
    IF st.i > Len(string) THEN st
    ELSE hash_loop(string, hash_type, hash_char(string, hash_type, st))

\* seed1 = 0x7FED7FED, seed2 = 0xEEEEEEEE; return seed1
_hash(string, hash_type) ==
    hash_loop(string, hash_type,
              [i |-> 1, seed1 |-> Lit(32749, 32749),
               seed2 |-> Lit(61166, 61166)]).seed1

----------------------------------------------------------------------------
(* _decrypt                                                                *)

\* seed1 = ((~seed1 << 0x15) + 0x11111111) | (seed1 >> 0x0B); seed1 &= 0xFFFFFFFF.
\* ~seed1 << 0x15 exceeds the pair's range, and only its bits below 2^32 reach
\* the result, the mask distributing over + and |: those are bits 0..10 of
\* ~seed1 moved up by 0x15, the lower half being 0.
next_seed1(seed1) ==
    LET shifted == Lit((Not(seed1)[2] % 2^11) * 2^5, 0)
    IN Mask32(Or(Add(shifted, Lit(4369, 4369)), Shr(seed1, 11)))

\* One pass of the loop of _decrypt, for word st.i (0-based) of data.
decrypt_word(data, st) ==
    LET \* seed1 = ...; seed2 = value + seed2 + (seed2 << 5) + 3 & 0xFFFFFFFF;
        \* result.write(struct.pack("<I", value))
        write(seed2, value) ==
            [i |-> st.i + 1,
             seed1 |-> next_seed1(st.seed1),
             seed2 |-> Mask32(Add(Add(Add(value, seed2), Shl(seed2, 5)), W(3))),
             result |-> st.result \o pack_I(value)]
        \* value = (value ^ (seed1 + seed2)) & 0xFFFFFFFF
        decrypt(seed2) ==
            write(seed2, Mask32(Xor(unpack_I(Slice(data, st.i * 4, st.i * 4 + 4)),
                                    Add(st.seed1, seed2))))
    \* seed2 += self.encryption_table[0x400 + (seed1 & 0xFF)]; seed2 &= 0xFFFFFFFF
    IN decrypt(Mask32(Add(st.seed2, encryption_table(1024 + (st.seed1[2] % 256)))))

RECURSIVE decrypt_loop(_, _)
\* for i in range(len(data) // 4), from word st.i on
decrypt_loop(data, st) ==
    IF st.i >= Len(data) \div 4 THEN st
    ELSE decrypt_loop(data, decrypt_word(data, st))

\* _decrypt(data, key): seed1 = key, seed2 = 0xEEEEEEEE; the result is what
\* the loop wrote.
_decrypt(data, key) ==
    decrypt_loop(data, [i |-> 0, seed1 |-> key, seed2 |-> Lit(61166, 61166),
                        result |-> <<>>]).result

----------------------------------------------------------------------------
(* The byte source: self.file                                              *)

\* self.file.read(n) at position pos: the bytes read.
read(data, pos, n) == Slice(data, pos, pos + n)

\* The position after self.file.read(n) at position pos: a read at or past
\* the end returns nothing and leaves the position alone.
tell(data, pos, n) == IF pos >= Len(data) THEN pos ELSE Min(pos + n, Len(data))

\* An exception raised by the step of an operation.
Raise(exc, pos) == [ok |-> FALSE, exc |-> exc, pos |-> pos]

----------------------------------------------------------------------------
(* read_header                                                             *)

\* b'MPQ\x1a', b'MPQ\x1b'
MAGIC_1A == <<77, 80, 81, 26>>
MAGIC_1B == <<77, 80, 81, 27>>

\* struct.unpack('h', b)[0]: signed 16-bit
unpack_h(b) == IF unpack_H(b) >= 2^15 THEN unpack_H(b) - 2^16 ELSE unpack_H(b)

\* read_mpq_header(offset): offset is <<>> for None and <<o>> for the
\* integer o.  `if offset:` seeks for an integer other than 0 only.  read_at
\* records the position the 32 bytes are read from.
read_mpq_header(data, pos, offset) ==
    LET at == IF offset # <<>> /\ offset[1] # W(0) THEN ToNat(offset[1]) ELSE pos
        d == read(data, at, 32)
        p1 == tell(data, at, 32)
        format_version == unpack_H(Slice(d, 12, 14))
        e == read(data, p1, 12)
        p2 == tell(data, p1, 12)
        header == [magic |-> Slice(d, 0, 4),
                   header_size |-> unpack_I(Slice(d, 4, 8)),
                   archive_size |-> unpack_I(Slice(d, 8, 12)),
                   format_version |-> format_version,
                   sector_size_shift |-> unpack_H(Slice(d, 14, 16)),
                   hash_table_offset |-> unpack_I(Slice(d, 16, 20)),
                   block_table_offset |-> unpack_I(Slice(d, 20, 24)),
                   hash_table_entries |-> unpack_I(Slice(d, 24, 28)),
                   block_table_entries |-> unpack_I(Slice(d, 28, 32))]
        \* header.update(extended_header._asdict()): the 'q' is kept as its
        \* eight bytes, nothing reads it
        extended == <<Slice(e, 0, 8), unpack_h(Slice(e, 8, 10)),
                      unpack_h(Slice(e, 10, 12))>>
    IN IF Len(d) # 32 THEN Raise("struct.error", p1)
       ELSE IF format_version # 1
            THEN [ok |-> TRUE, pos |-> p1, read_at |-> at, header |-> header,
                  extended |-> <<>>]
       ELSE IF Len(e) # 12 THEN Raise("struct.error", p2)
       ELSE [ok |-> TRUE, pos |-> p2, read_at |-> at, header |-> header,
             extended |-> extended]

\* read_mpq_user_data_header(), the position being 0
read_mpq_user_data_header(data) ==
    LET d == read(data, 0, 16)
        p1 == tell(data, 0, 16)
        user_data_header_size == unpack_I(Slice(d, 12, 16))
        n == ToNat(user_data_header_size)
    IN IF Len(d) # 16 THEN Raise("struct.error", p1)
       ELSE [ok |-> TRUE, pos |-> tell(data, p1, n),
             header |-> [magic |-> Slice(d, 0, 4),
                         user_data_size |-> unpack_I(Slice(d, 4, 8)),
                         mpq_header_offset |-> unpack_I(Slice(d, 8, 12)),
                         user_data_header_size |-> user_data_header_size,
                         content |-> read(data, p1, n)]]

\* The header dictionary read_header returns: the fields of the archive
\* header, header['offset'] and, for MPQ\x1b, header['user_data_header'].
Header(r, offset, user_data_header) ==
    [ok |-> TRUE, pos |-> r.pos, read_at |-> r.read_at,
     header |-> [fields |-> r.header, extended |-> r.extended,
                 offset |-> offset, user_data_header |-> user_data_header]]

\* read_header(): magic = self.file.read(4); self.file.seek(0)
read_header(data) ==
    LET magic == read(data, 0, 4)
        plain == read_mpq_header(data, 0, <<>>)
        udh == read_mpq_user_data_header(data)
        wrapped == read_mpq_header(data, udh.pos, <<udh.header.mpq_header_offset>>)
    IN IF magic = MAGIC_1A
       THEN IF plain.ok THEN Header(plain, W(0), <<>>) ELSE plain
       ELSE IF magic = MAGIC_1B
       THEN IF ~udh.ok THEN udh
            ELSE IF wrapped.ok
                 THEN Header(wrapped, udh.header.mpq_header_offset, <<udh.header>>)
                 ELSE wrapped
       ELSE Raise("ValueError", 0)

----------------------------------------------------------------------------
(* read_table                                                              *)

\* '(hash table)' and '(block table)'
STR_HASH_TABLE == <<40, 104, 97, 115, 104, 32, 116, 97, 98, 108, 101, 41>>
STR_BLOCK_TABLE == <<40, 98, 108, 111, 99, 107, 32, 116, 97, 98, 108, 101, 41>>

\* unpack_entry(position) for MPQHashTableEntry, struct format '2I2HI'
unpack_hash_entry(entry_data) ==
    [hash_a |-> unpack_I(Slice(entry_data, 0, 4)),
     hash_b |-> unpack_I(Slice(entry_data, 4, 8)),
     locale |-> unpack_H(Slice(entry_data, 8, 10)),
     platform |-> unpack_H(Slice(entry_data, 10, 12)),
     block_table_index |-> unpack_I(Slice(entry_data, 12, 16))]

\* unpack_entry(position) for MPQBlockTableEntry, struct format '4I'
unpack_block_entry(entry_data) ==
    [offset |-> unpack_I(Slice(entry_data, 0, 4)),
     archived_size |-> unpack_I(Slice(entry_data, 4, 8)),
     size |-> unpack_I(Slice(entry_data, 8, 12)),
     flags |-> unpack_I(Slice(entry_data, 12, 16))]

\* read_table(table_type) with the header read before.  An entry whose 16
\* bytes the decrypted data does not hold makes struct.unpack raise.
read_table(data, header, table_type) ==
    LET table_offset == IF table_type = "hash" THEN header.fields.hash_table_offset
                        ELSE header.fields.block_table_offset
        table_entries == ToNat(IF table_type = "hash"
                               THEN header.fields.hash_table_entries
                               ELSE header.fields.block_table_entries)
        key == _hash(IF table_type = "hash" THEN STR_HASH_TABLE ELSE STR_BLOCK_TABLE,
                     "TABLE")
        at == ToNat(Add(table_offset, header.offset))
        entry(plain, i) ==
            IF table_type = "hash"
            THEN unpack_hash_entry(Slice(plain, i * 16, i * 16 + 16))
            ELSE unpack_block_entry(Slice(plain, i * 16, i * 16 + 16))
        \* [unpack_entry(i) for i in range(table_entries)]
        unpack(plain) ==
            IF Len(plain) < table_entries * 16
            THEN Raise("struct.error", tell(data, at, table_entries * 16))
            ELSE [ok |-> TRUE, pos |-> tell(data, at, table_entries * 16),
                  table |-> [i \in 1..table_entries |-> entry(plain, i - 1)]]
    IN unpack(_decrypt(read(data, at, table_entries * 16), key))

----------------------------------------------------------------------------
(* Block flags and file names                                              *)

MPQ_FILE_IMPLODE == Lit(0, 256)           \* 0x00000100
MPQ_FILE_COMPRESS == Lit(0, 512)          \* 0x00000200
MPQ_FILE_ENCRYPTED == Lit(1, 0)           \* 0x00010000
MPQ_FILE_FIX_KEY == Lit(2, 0)             \* 0x00020000
MPQ_FILE_SINGLE_UNIT == Lit(256, 0)       \* 0x01000000
MPQ_FILE_DELETE_MARKER == Lit(512, 0)     \* 0x02000000
MPQ_FILE_SECTOR_CRC == Lit(1024, 0)       \* 0x04000000
MPQ_FILE_EXISTS == Lit(32768, 0)          \* 0x80000000

\* `flags & flag` as a condition
HasFlag(flags, flag) == And(flags, flag) # W(0)

\* A file name is a str or, when it comes from the listfile, a bytes object:
\* [t |-> "str" or "bytes", s |-> its characters].
Str(s) == [t |-> "str", s |-> s]
Bytes(s) == [t |-> "bytes", s |-> s]

RECURSIVE replace_backslash(_)
\* s.replace('\\', '//')
replace_backslash(s) ==
    IF s = <<>> THEN <<>>
    ELSE (IF Head(s) = 92 THEN <<47, 47>> ELSE <<Head(s)>>)
         \o replace_backslash(Tail(s))

\* os.path.basename(p): p[p.rfind('/') + 1:]
basename(p) ==
    LET slashes == {i \in 1..Len(p) : p[i] = 47}
        last == IF slashes = {} THEN 0
                ELSE CHOOSE i \in slashes : \A j \in slashes : j <= i
    IN Slice(p, last, Len(p))

----------------------------------------------------------------------------
(* get_hash_table_entry, get_file_key                                      *)

\* get_hash_table_entry(filename): the first entry with both hashes, found
\* FALSE for the None the loop falls out with.
get_hash_table_entry(hash_table, filename) ==
    LET hash_a == _hash(filename.s, "HASH_A")
        hash_b == _hash(filename.s, "HASH_B")
        hits == {i \in 1..Len(hash_table) :
                    hash_table[i].hash_a = hash_a /\ hash_table[i].hash_b = hash_b}
    IN IF hits = {} THEN [found |-> FALSE]
       ELSE [found |-> TRUE,
             entry |-> hash_table[CHOOSE i \in hits : \A j \in hits : i <= j]]

\* get_file_key(filename, block_entry) for a str filename (strip is True):
\* key += block_entry.offset - self.header['offset']; key ^= block_entry.size.
\* Nothing masks the key: it is any Python integer.
get_file_key(header, filename, block_entry) ==
    LET key == _hash(basename(replace_backslash(filename.s)), "TABLE")
    IN IF HasFlag(block_entry.flags, MPQ_FILE_FIX_KEY)
       THEN Xor(Add(key, Sub(block_entry.offset, header.offset)), block_entry.size)
       ELSE key

----------------------------------------------------------------------------
(* decompress                                                              *)

\* The decoders of zlib, bz2 and the ttdecomp tool are not part of the
\* program.  They are stood for by one run-length decoder: the stream
\* <<b, n1, n2, ...>> decodes to n1 + n2 + ... bytes b; the empty stream is
\* invalid.  What a decoder gives is a record: ok, the data or the
\* exception, stub, and tmp, the number of temporary files the call made
\* and did not unlink.
RECURSIVE Sum(_)
Sum(ns) == IF ns = <<>> THEN 0 ELSE Head(ns) + Sum(Tail(ns))

runs(stream) == [i \in 1..Sum(Tail(stream)) |-> stream[1]]

\* zlib.decompress(data, 15); zlib.error for an invalid stream
zlib_decompress(data) ==
    IF data = <<>> THEN [ok |-> FALSE, exc |-> "zlib.error", tmp |-> 0]
    ELSE [ok |-> TRUE, data |-> runs(data), stub |-> FALSE, tmp |-> 0]

\* bz2.decompress(data); OSError for an invalid stream
bz2_decompress(data) ==
    IF data = <<>> THEN [ok |-> FALSE, exc |-> "OSError", tmp |-> 0]
    ELSE [ok |-> TRUE, data |-> runs(data), stub |-> FALSE, tmp |-> 0]

\* What the file system and the ttdecomp tool can do to the IMPLODE branch:
\*   "absent"       shutil.which finds no tool: the stream is returned as
\*                  it is, after a warning, and no temporary file is made
\*   "ok"           return code 0, proc.stdout is the decoded stream
\*   "nonzero"      return code not 0, nothing on stdout, stderr empty or
\*                  UTF-8 text
\*   "bad_stderr"   return code not 0, and stderr is no UTF-8:
\*                  err_output.decode() raises UnicodeDecodeError
\*   "write_fails"  os.write(tmpfd, data) raises OSError
\*   "launch_fails" subprocess.run raises OSError
Tools == {"absent", "ok", "nonzero", "bad_stderr", "write_fails", "launch_fails"}

\* The IMPLODE branch: tempfile.mkstemp(), os.write, os.close,
\* subprocess.run, the warning, os.unlink(tmpname), data = proc.stdout.
\* os.unlink is reached only when no statement before it raised.
implode_decompress(data, ttdecomp) ==
    IF ttdecomp = "absent"
    THEN [ok |-> TRUE, data |-> data, stub |-> TRUE, tmp |-> 0]
    ELSE IF ttdecomp = "write_fails" \/ ttdecomp = "launch_fails"
    THEN [ok |-> FALSE, exc |-> "OSError", tmp |-> 1]
    ELSE IF ttdecomp = "bad_stderr"
    THEN [ok |-> FALSE, exc |-> "UnicodeDecodeError", tmp |-> 1]
    ELSE IF ttdecomp = "ok" /\ data # <<>>
    THEN [ok |-> TRUE, data |-> runs(data), stub |-> FALSE, tmp |-> 0]
    ELSE [ok |-> TRUE, data |-> <<>>, stub |-> FALSE, tmp |-> 0]

\* decompress(data): compression_type, data = CompressionType(data[0]), data[1:].
\* data[0] of no data raises IndexError, a byte that is no CompressionType
\* ValueError.  stub tells that a codec that is not implemented returned
\* the stream as it is.
decompress(data, ttdecomp) ==
    LET compression_type == data[1]
        rest == Slice(data, 1, Len(data))
    IN IF data = <<>> THEN [ok |-> FALSE, exc |-> "IndexError", tmp |-> 0]
       ELSE IF compression_type = 0
            THEN [ok |-> TRUE, data |-> rest, stub |-> FALSE, tmp |-> 0]
       ELSE IF compression_type = 2 THEN zlib_decompress(rest)
       ELSE IF compression_type = 16 THEN bz2_decompress(rest)
       ELSE IF compression_type = 8 THEN implode_decompress(rest, ttdecomp)
       ELSE IF compression_type \in {18, 32, 64, 128}
            THEN [ok |-> TRUE, data |-> rest, stub |-> TRUE, tmp |-> 0]
       ELSE [ok |-> FALSE, exc |-> "ValueError", tmp |-> 0]

----------------------------------------------------------------------------
(* read_file                                                               *)

\* What read_file returns or raises, with the file position it leaves.
\* kind is "None", "bytes" or "raise".  The other fields record what the
\* call did, for the properties: block is <<>> or <<the block entry read>>,
\* key <<>> or <<the file key>>, table the sector offset table after its
\* decryption, sectors the passes of the sector loop, stub whether a codec
\* that is not implemented handled a sector, tmp the number of temporary
\* files the call made and did not unlink.
Result(kind, val, exc, pos, block, key, table, sectors, stub, tmp) ==
    [kind |-> kind, val |-> val, exc |-> exc, pos |-> pos, block |-> block,
     key |-> key, table |-> table, sectors |-> sectors, stub |-> stub,
     tmp |-> tmp]

\* a // (1 << k) for a in [0, 2^32) and any k >= 0
FloorDivPow2(a, k) ==
    IF k >= 32 THEN W(0)
    ELSE IF k > 16 THEN Shr(Shr(a, 16), k - 16)
    ELSE Shr(a, k)

\* positions = struct.unpack('<%dI' % n_offsets, offset_table)
unpack_positions(offset_table) ==
    [i \in 1..(Len(offset_table) \div 4) |->
        unpack_I(Slice(offset_table, 4 * (i - 1), 4 * i))]

\* sector.startswith(b'\x00\x06')
Starts0006(sector) == Len(sector) >= 2 /\ sector[1] = 0 /\ sector[2] = 6

\* One pass of the sector loop, for sector st.i (0-based).  key is <<>> for
\* a block that is not encrypted.  The pass is recorded in st.sectors: the
\* sector as stored and as decrypted, the budget before it, whether it went
\* to decompress and what was written.
read_sector(file_data, positions, flags0, key, force_decompress, ttdecomp, st) ==
    LET \* sector_bytes_left -= len(sector); result.write(sector), d being
        \* what decompress gave, or the sector itself
        write(stored, plain, dispatched, d) ==
            LET pass == [i |-> st.i, stored |-> stored, plain |-> plain,
                         dispatched |-> dispatched,
                         written |-> IF d.ok THEN d.data ELSE <<>>,
                         budget |-> st.sector_bytes_left]
            IN IF ~d.ok
               THEN [st EXCEPT !.ok = FALSE, !.exc = d.exc,
                               !.sectors = Append(@, pass), !.tmp = @ + d.tmp]
               ELSE [i |-> st.i + 1,
                     ok |-> TRUE,
                     exc |-> "",
                     sector_bytes_left |-> Sub(st.sector_bytes_left, W(Len(d.data))),
                     result |-> st.result \o d.data,
                     stub |-> st.stub \/ d.stub,
                     sectors |-> Append(st.sectors, pass),
                     tmp |-> st.tmp + d.tmp]
        \* if (flags & MPQ_FILE_COMPRESS and
        \*     (force_decompress or sector_bytes_left > len(sector))):
        \*         sector = decompress(sector)
        dispatch(stored, plain, dispatched, sector) ==
            write(stored, plain, dispatched,
                  IF dispatched THEN decompress(sector, ttdecomp)
                  ELSE [ok |-> TRUE, data |-> sector, stub |-> FALSE, tmp |-> 0])
        test(stored, plain, flags, sector) ==
            dispatch(stored, plain,
                     HasFlag(flags, MPQ_FILE_COMPRESS)
                     /\ (force_decompress
                         \/ Greater(st.sector_bytes_left, W(Len(sector)))),
                     sector)
        \* flags = block_entry.flags; if sector.startswith(b'\x00\x06'):
        \* flags |= MPQ_FILE_COMPRESS; sector = bytes([IMPLODE]) + sector
        special(stored, plain) ==
            test(stored, plain,
                 IF Starts0006(plain) THEN Or(flags0, MPQ_FILE_COMPRESS) ELSE flags0,
                 IF Starts0006(plain) THEN <<8>> \o plain ELSE plain)
        \* sector = self._decrypt(sector, key + i)
        decrypt(stored) ==
            special(stored, IF key # <<>> THEN _decrypt(stored, Add(key[1], W(st.i)))
                            ELSE stored)
    \* sector = file_data[positions[i]:positions[i+1]]
    IN decrypt(Slice(file_data, ToNat(positions[st.i + 1]),
                     ToNat(positions[st.i + 2])))

RECURSIVE sector_loop(_, _, _, _, _, _, _, _)
\* for i in range(len(positions) - (2 if crc else 1)), from sector st.i on
sector_loop(file_data, positions, crc, flags, key, force_decompress, ttdecomp, st) ==
    IF ~st.ok \/ st.i >= Len(positions) - (IF crc THEN 2 ELSE 1) THEN st
    ELSE sector_loop(file_data, positions, crc, flags, key, force_decompress,
                     ttdecomp,
                     read_sector(file_data, positions, flags, key,
                                 force_decompress, ttdecomp, st))

\* The branch of read_file for a block that is not SINGLE_UNIT.
read_sectors(header, block_entry, file_data, key, force_decompress, ttdecomp, pos) ==
    LET \* sector_size = 512 << sector_size_shift;
        \* sectors = block_entry.size // sector_size + 1
        sectors == ToNat(FloorDivPow2(block_entry.size,
                                      9 + header.fields.sector_size_shift)) + 1
        crc == HasFlag(block_entry.flags, MPQ_FILE_SECTOR_CRC)
        n_offsets == (IF crc THEN sectors + 1 ELSE sectors) + 1
        \* file_data = result.getvalue()
        getvalue(positions, st) ==
            IF ~st.ok
            THEN Result("raise", <<>>, st.exc, pos, <<block_entry>>, key,
                        positions, st.sectors, st.stub, st.tmp)
            ELSE Result("bytes", st.result, "", pos, <<block_entry>>, key,
                        positions, st.sectors, st.stub, st.tmp)
        loop(positions) ==
            getvalue(positions,
                     sector_loop(file_data, positions, crc, block_entry.flags,
                                 key, force_decompress, ttdecomp,
                                 [i |-> 0, ok |-> TRUE, exc |-> "",
                                  sector_bytes_left |-> block_entry.size,
                                  result |-> <<>>, stub |-> FALSE,
                                  sectors |-> <<>>, tmp |-> 0]))
        \* positions = struct.unpack('<%dI' % n_offsets, offset_table)
        unpack(offset_table) ==
            IF Len(offset_table) # 4 * n_offsets
            THEN Result("raise", <<>>, "struct.error", pos, <<block_entry>>, key,
                        <<>>, <<>>, FALSE, 0)
            ELSE loop(unpack_positions(offset_table))
        \* offset_table = self._decrypt(offset_table, key - 1)
        decrypt(offset_table) ==
            unpack(IF key # <<>> THEN _decrypt(offset_table, Sub(key[1], W(1)))
                   ELSE offset_table)
    \* offset_table = file_data[:4 * n_offsets]
    IN decrypt(Slice(file_data, 0, 4 * n_offsets))

\* The branch of read_file for a SINGLE_UNIT block.
read_single_unit(block_entry, file_data, key, force_decompress, ttdecomp, pos) ==
    LET decompressed(d) ==
            IF d.ok
            THEN Result("bytes", d.data, "", pos, <<block_entry>>, key, <<>>,
                        <<>>, d.stub, d.tmp)
            ELSE Result("raise", <<>>, d.exc, pos, <<block_entry>>, key, <<>>,
                        <<>>, FALSE, d.tmp)
    IN IF HasFlag(block_entry.flags, MPQ_FILE_COMPRESS)
          /\ (force_decompress
              \/ Greater(block_entry.size, block_entry.archived_size))
       THEN decompressed(decompress(file_data, ttdecomp))
       ELSE Result("bytes", file_data, "", pos, <<block_entry>>, key, <<>>, <<>>,
                   FALSE, 0)

\* read_file from `if block_entry.flags & MPQ_FILE_EXISTS:` on.  The key is
\* computed for an ENCRYPTED block only; get_file_key calls
\* filename.replace('\\', '//'), a TypeError for a bytes filename.
read_block(self, filename, block_entry, force_decompress, ttdecomp) ==
    LET offset == ToNat(Add(block_entry.offset, self.header.offset))
        n == ToNat(block_entry.archived_size)
        encrypted == HasFlag(block_entry.flags, MPQ_FILE_ENCRYPTED)
        decode(file_data, pos, key) ==
            IF ~HasFlag(block_entry.flags, MPQ_FILE_SINGLE_UNIT)
            THEN read_sectors(self.header, block_entry, file_data, key,
                              force_decompress, ttdecomp, pos)
            ELSE read_single_unit(block_entry, file_data, key, force_decompress,
                                  ttdecomp, pos)
    IN IF ~HasFlag(block_entry.flags, MPQ_FILE_EXISTS)
       THEN Result("None", <<>>, "", self.pos, <<block_entry>>, <<>>, <<>>, <<>>,
                   FALSE, 0)
       ELSE IF block_entry.archived_size = W(0)
       THEN Result("None", <<>>, "", self.pos, <<block_entry>>, <<>>, <<>>, <<>>,
                   FALSE, 0)
       ELSE IF encrypted /\ filename.t = "bytes"
       THEN Result("raise", <<>>, "TypeError", tell(self.data, offset, n),
                   <<block_entry>>, <<>>, <<>>, <<>>, FALSE, 0)
       ELSE decode(read(self.data, offset, n), tell(self.data, offset, n),
                   IF encrypted
                   THEN <<get_file_key(self.header, filename, block_entry)>>
                   ELSE <<>>)

\* read_file(filename, force_decompress) on the archive self, a record of
\* the byte source (data, pos) and of header, hash_table and block_table.
\* self.block_table[i] raises IndexError for an index that is no position
\* of the list.
read_file(self, filename, force_decompress, ttdecomp) ==
    LET \* block_entry = self.block_table[hash_entry.block_table_index]
        lookup(index) ==
            IF ~Less(index, W(Len(self.block_table)))
            THEN Result("raise", <<>>, "IndexError", self.pos, <<>>, <<>>, <<>>,
                        <<>>, FALSE, 0)
            ELSE read_block(self, filename, self.block_table[ToNat(index) + 1],
                            force_decompress, ttdecomp)
        found(hash_entry) ==
            IF ~hash_entry.found
            THEN Result("None", <<>>, "", self.pos, <<>>, <<>>, <<>>, <<>>, FALSE, 0)
            ELSE lookup(hash_entry.entry.block_table_index)
    IN found(get_hash_table_entry(self.hash_table, filename))

----------------------------------------------------------------------------
(* extract and __init__                                                    *)

RECURSIVE splitlines(_)
\* bytes.splitlines(): lines end at \n, \r or \r\n, and a last line without
\* an end counts when it is not empty.
splitlines(s) ==
    LET ends == {i \in 1..Len(s) : s[i] \in {10, 13}}
        k == CHOOSE i \in ends : \A j \in ends : i <= j
        next == IF s[k] = 13 /\ k < Len(s) /\ s[k + 1] = 10 THEN k + 1 ELSE k
    IN IF s = <<>> THEN <<>>
       ELSE IF ends = {} THEN <<s>>
       ELSE <<Slice(s, 0, k - 1)>> \o splitlines(Slice(s, next, Len(s)))

\* One pass of the generator of extract: (f, self.read_file(f)) for the
\* name st.i of files.  st.pos is the file position, st.items the pairs made
\* so far, st.tmp the temporary files the calls left.
extract_item(self, files, ttdecomp, st) ==
    LET item(f, r) ==
            IF r.kind = "raise"
            THEN [st EXCEPT !.ok = FALSE, !.exc = r.exc, !.pos = r.pos,
                            !.tmp = @ + r.tmp]
            ELSE [i |-> st.i + 1, ok |-> TRUE, exc |-> "", pos |-> r.pos,
                  items |-> Append(st.items, <<f, [kind |-> r.kind, val |-> r.val]>>),
                  tmp |-> st.tmp + r.tmp]
    IN item(files[st.i],
            read_file([self EXCEPT !.pos = st.pos], files[st.i], FALSE, ttdecomp))

RECURSIVE extract_loop(_, _, _, _)
\* for f in files, from the name st.i on
extract_loop(self, files, ttdecomp, st) ==
    IF ~st.ok \/ st.i > Len(files) THEN st
    ELSE extract_loop(self, files, ttdecomp, extract_item(self, files, ttdecomp, st))

\* dict(items): the last pair of a key is the one that stays.
dict(items) ==
    [k \in {items[i][1] : i \in 1..Len(items)} |->
        items[CHOOSE i \in 1..Len(items) :
                  /\ items[i][1] = k
                  /\ \A j \in 1..Len(items) : items[j][1] = k => j <= i][2]]

\* extract(files): files and self.files are <<>> for None and <<names>> for
\* a list of names; `files or self.files` and `if files:` take None and the
\* empty list alike.
extract(self, files, ttdecomp) ==
    LET truthy(l) == l # <<>> /\ l[1] # <<>>
        made(names, st) ==
            IF ~st.ok
            THEN [kind |-> "raise", exc |-> st.exc, pos |-> st.pos,
                  names |-> names, val |-> <<>>, tmp |-> st.tmp]
            ELSE [kind |-> "dict", exc |-> "", pos |-> st.pos, names |-> names,
                  val |-> dict(st.items), tmp |-> st.tmp]
        \* if files: return dict((f, self.read_file(f)) for f in files)
        chosen(l) ==
            IF ~truthy(l)
            THEN [kind |-> "raise", exc |-> "RuntimeError", pos |-> self.pos,
                  names |-> <<>>, val |-> <<>>, tmp |-> 0]
            ELSE made(l[1], extract_loop(self, l[1], ttdecomp,
                                         [i |-> 1, ok |-> TRUE, exc |-> "",
                                          pos |-> self.pos, items |-> <<>>,
                                          tmp |-> 0]))
    \* files = files or self.files
    IN chosen(IF truthy(files) THEN files ELSE self.files)

\* '(listfile)'
STR_LISTFILE == <<40, 108, 105, 115, 116, 102, 105, 108, 101, 41>>

\* MPQArchive(filename, listfile): the archive made, or the exception of
\* the step that raised.  read_file('(listfile)') returning None makes
\* .splitlines() raise AttributeError.
__init__(data, listfile, ttdecomp) ==
    LET failed(exc, pos, read_at, tmp) ==
            [ok |-> FALSE, exc |-> exc, pos |-> pos, read_at |-> read_at,
             tmp |-> tmp]
        made(h, hash, block, pos, files, tmp) ==
            [ok |-> TRUE, exc |-> "", pos |-> pos, read_at |-> h.read_at,
             header |-> h.header, hash_table |-> hash.table,
             block_table |-> block.table, files |-> files, tmp |-> tmp]
        names(lines) == <<[i \in 1..Len(lines) |-> Bytes(lines[i])]>>
        \* self.files = self.read_file('(listfile)').splitlines()
        with_listfile(h, hash, block, r) ==
            IF r.kind = "raise" THEN failed(r.exc, r.pos, h.read_at, r.tmp)
            ELSE IF r.kind = "None"
            THEN failed("AttributeError", r.pos, h.read_at, r.tmp)
            ELSE made(h, hash, block, r.pos, names(splitlines(r.val)), r.tmp)
        \* self.block_table = self.read_table('block')
        with_block(h, hash, block) ==
            IF ~block.ok THEN failed(block.exc, block.pos, h.read_at, 0)
            ELSE IF ~listfile THEN made(h, hash, block, block.pos, <<>>, 0)
            ELSE with_listfile(h, hash, block,
                               read_file([data |-> data, pos |-> block.pos,
                                          header |-> h.header,
                                          hash_table |-> hash.table,
                                          block_table |-> block.table],
                                         Str(STR_LISTFILE), FALSE, ttdecomp))
        \* self.hash_table = self.read_table('hash')
        with_hash(h, hash) ==
            IF ~hash.ok THEN failed(hash.exc, hash.pos, h.read_at, 0)
            ELSE with_block(h, hash, read_table(data, h.header, "block"))
        \* self.header = self.read_header()
        with_header(h) ==
            IF ~h.ok THEN failed(h.exc, h.pos, -1, 0)
            ELSE with_hash(h, read_table(data, h.header, "hash"))
    IN with_header(read_header(data))

----------------------------------------------------------------------------
(* The archives the byte source is drawn from.  An archive is described by *)
(* what an archiver stored (its layout and, for each member, its name,     *)
(* flags, size and stored sectors) and written out byte for byte, its      *)
(* tables and encrypted members enciphered by the inverse of _decrypt.     *)

\* struct.pack('<H', n)
pack_H(n) == <<n % 256, n \div 256>>

\* One word of the inverse of _decrypt: word st.i of the plain data is
\* enciphered with the seeds decrypt_word moves through.
encrypt_word(data, st) ==
    LET value == unpack_I(Slice(data, st.i * 4, st.i * 4 + 4))
        encrypt(seed2) ==
            [i |-> st.i + 1,
             seed1 |-> next_seed1(st.seed1),
             seed2 |-> Mask32(Add(Add(Add(value, seed2), Shl(seed2, 5)), W(3))),
             result |-> st.result \o pack_I(Mask32(Xor(value, Add(st.seed1, seed2))))]
    IN encrypt(Mask32(Add(st.seed2, encryption_table(1024 + (st.seed1[2] % 256)))))

RECURSIVE encrypt_loop(_, _)
encrypt_loop(data, st) ==
    IF st.i >= Len(data) \div 4 THEN st
    ELSE encrypt_loop(data, encrypt_word(data, st))

\* The archiver's cipher, for a key in [0, 2^32): whole words are
\* enciphered, the bytes after the last whole word are stored as they are.
Encrypt(data, key) ==
    encrypt_loop(data, [i |-> 0, seed1 |-> key, seed2 |-> Lit(61166, 61166),
                        result |-> <<>>]).result
    \o Slice(data, 4 * (Len(data) \div 4), Len(data))

RECURSIVE Concat(_)
\* The concatenation of a sequence of byte strings.
Concat(ss) == IF ss = <<>> THEN <<>> ELSE Head(ss) \o Concat(Tail(ss))

RECURSIVE Bytes32(_)
\* The little-endian bytes of a sequence of 32-bit integers.
Bytes32(ws) == IF ws = <<>> THEN <<>> ELSE pack_I(Head(ws)) \o Bytes32(Tail(ws))

\* The size field of a member stored at `offset`: m.size, or for the member
\* m.size = <<>> marks, the size that makes its FIX_KEY file key 0.
MemberSize(m, offset) ==
    IF m.size # <<>> THEN m.size[1]
    ELSE Mask32(Add(_hash(basename(replace_backslash(m.name)), "TABLE"), W(offset)))

\* The file key the format gives a member stored at `offset` (relative to
\* the archive header): the TABLE hash of the base name and, with FIX_KEY,
\* (key + offset) XOR size, in 32 bits.
MemberKey(m, offset) ==
    LET key == _hash(basename(replace_backslash(m.name)), "TABLE")
    IN IF HasFlag(m.flags, MPQ_FILE_FIX_KEY)
       THEN Mask32(Xor(Mask32(Add(key, W(offset))), MemberSize(m, offset)))
       ELSE key

\* The length of the sector offset table of a member stored in sectors.
SotLen(m) ==
    4 * (Len(m.units) + 1 + (IF HasFlag(m.flags, MPQ_FILE_SECTOR_CRC) THEN 1 ELSE 0))

\* The checksum block stored after the sectors of a SECTOR_CRC member.
CrcBlock(m) == IF HasFlag(m.flags, MPQ_FILE_SECTOR_CRC) THEN <<1, 2, 3, 4>> ELSE <<>>

\* The stored bytes of a member at `offset`.  A SINGLE_UNIT member is its one
\* unit.  A member in sectors is its sector offset table, its sectors and
\* its checksum block; with ENCRYPTED the table is enciphered with key - 1
\* and sector i with key + i.
MemberBlob(m, offset) ==
    LET n == Len(m.units)
        key == MemberKey(m, offset)
        encrypted == HasFlag(m.flags, MPQ_FILE_ENCRYPTED)
        units == m.units \o (IF CrcBlock(m) = <<>> THEN <<>> ELSE <<CrcBlock(m)>>)
        position(i) == SotLen(m) + Len(Concat(SubSeq(units, 1, i)))
        table == Bytes32([i \in 1..(Len(units) + 1) |-> W(position(i - 1))])
        sector(i) == IF encrypted
                     THEN Encrypt(m.units[i], Mask32(Add(key, W(i - 1))))
                     ELSE m.units[i]
    IN IF m.units = <<>> THEN <<>>
       ELSE IF HasFlag(m.flags, MPQ_FILE_SINGLE_UNIT) THEN m.units[1]
       ELSE (IF encrypted THEN Encrypt(table, Mask32(Sub(key, W(1)))) ELSE table)
            \o Concat([i \in 1..n |-> sector(i)]) \o CrcBlock(m)

\* The length of the stored bytes of a member.
BlobLen(m) ==
    IF m.units = <<>> THEN 0
    ELSE IF HasFlag(m.flags, MPQ_FILE_SINGLE_UNIT) THEN Len(m.units[1])
    ELSE SotLen(m) + Len(Concat(m.units)) + Len(CrcBlock(m))

\* The bytes of the archive a describes.  a.prefix is "1a" (the archive
\* header at offset 0), "1b" (a user data header with a.user bytes of user
\* data, the archive header after them), "1b0" (as "1b", the user data
\* header giving mpq_header_offset as 0) or "bad" (another magic).  The hash
\* table follows the archive header, the block table the hash table and the
\* members the block table, all offsets relative to the archive header but
\* for "1b0", where they are absolute.
ArchiveBytes(a) ==
    LET n == Len(a.members)
        at == IF a.prefix \in {"1b", "1b0"} THEN 16 + a.user ELSE 0
        base == IF a.prefix = "1b" THEN at ELSE 0
        header_len == IF a.version = 1 THEN 44 ELSE 32
        hash_at == at - base + header_len
        block_at == hash_at + 16 * n
        first == block_at + 16 * n
        offset(i) == first + Sum([j \in 1..(i - 1) |-> BlobLen(a.members[j])])
        user_data == IF a.prefix \in {"1b", "1b0"}
                     THEN MAGIC_1B \o pack_I(W(a.user)) \o pack_I(W(base))
                          \o pack_I(W(a.user)) \o [i \in 1..a.user |-> 85]
                     ELSE <<>>
        header == (IF a.prefix = "bad" THEN <<77, 80, 81, 28>> ELSE MAGIC_1A)
                  \o pack_I(W(header_len)) \o pack_I(W(offset(n + 1)))
                  \o pack_H(a.version) \o pack_H(a.shift)
                  \o pack_I(W(hash_at)) \o pack_I(W(block_at))
                  \o pack_I(W(n)) \o pack_I(W(n))
                  \o (IF a.version = 1 THEN [i \in 1..12 |-> 0] ELSE <<>>)
        hash_entry(i) ==
            LET m == a.members[i]
            IN pack_I(_hash(m.name, "HASH_A")) \o pack_I(_hash(m.name, "HASH_B"))
               \o pack_H(0) \o pack_H(0)
               \o pack_I(IF m.index = <<>> THEN W(i - 1) ELSE m.index[1])
        block_entry(i) ==
            LET m == a.members[i]
            IN pack_I(W(offset(i))) \o pack_I(W(BlobLen(m)))
               \o pack_I(MemberSize(m, offset(i))) \o pack_I(m.flags)
    IN user_data \o header
       \o Encrypt(Concat([i \in 1..n |-> hash_entry(i)]), _hash(STR_HASH_TABLE, "TABLE"))
       \o Encrypt(Concat([i \in 1..n |-> block_entry(i)]), _hash(STR_BLOCK_TABLE, "TABLE"))
       \o Concat([i \in 1..n |-> MemberBlob(a.members[i], offset(i))])

----------------------------------------------------------------------------
(* The members and archives of the model                                   *)

RECURSIVE Flags(_)
\* The flags word with the given flags set.
Flags(fs) == IF fs = <<>> THEN W(0) ELSE Or(Head(fs), Flags(Tail(fs)))

\* A member: its name, flags, size field (<<size>>), stored units (the one
\* unit of a SINGLE_UNIT member, else its sectors, as stored before
\* encryption), the block_table_index of its hash table entry (<<>> for the
\* index of its own block) and the bytes the member holds (<<content>>, or
\* <<>> for a member the format gives no content).
Member(name, fs, size, units, content) ==
    [name |-> name, flags |-> Flags(fs), size |-> size, units |-> units,
     index |-> <<>>, content |-> content]

Rep(n, b) == [i \in 1..n |-> b]

NAME_A == <<97>>               \* 'a'
NAME_D_A == <<100, 92, 97>>    \* 'd\\a'
NAME_Z == <<122>>              \* 'z'

\* The sizes of the model's members: a file of one sector and a bit, and
\* what the last sector of it holds.
TailLen == 3

EX == MPQ_FILE_EXISTS
SU == MPQ_FILE_SINGLE_UNIT
CO == MPQ_FILE_COMPRESS
EN == MPQ_FILE_ENCRYPTED
FK == MPQ_FILE_FIX_KEY
CR == MPQ_FILE_SECTOR_CRC

\* The last sector of a file of 512 + n bytes, stored as it is.
TailBytes(n) == [i \in 1..n |-> i]

\* The first sector of such a file, 512 bytes 7, stored compressed.
FirstSector == <<2, 7, 255, 255, 2>>
FirstSectorPadded == <<2, 7, 255, 255, 2, 0, 0, 0>>

Subjects ==
    << \* 1: one unit, stored as it is
       Member(NAME_A, <<EX, SU>>, <<W(2)>>, << <<104, 105>> >>, << <<104, 105>> >>),
       \* 2: one unit, deflated
       Member(NAME_A, <<EX, SU, CO>>, <<W(5)>>, << <<2, 9, 5>> >>, <<Rep(5, 9)>>),
       \* 3: one unit of a COMPRESS member that compression did not shorten
       Member(NAME_A, <<EX, SU, CO>>, <<W(3)>>, << <<1, 2, 3>> >>, << <<1, 2, 3>> >>),
       \* 4: one sector, stored as it is
       Member(NAME_A, <<EX>>, <<W(TailLen)>>, <<TailBytes(TailLen)>>,
              <<TailBytes(TailLen)>>),
       \* 5: two sectors, the first deflated
       Member(NAME_A, <<EX, CO>>, <<W(512 + TailLen)>>,
              <<FirstSector, TailBytes(TailLen)>>,
              <<Rep(512, 7) \o TailBytes(TailLen)>>),
       \* 6: two sectors, encrypted, the stored sectors whole words
       Member(NAME_A, <<EX, CO, EN>>, <<W(512 + 4)>>,
              <<FirstSectorPadded, TailBytes(4)>>,
              <<Rep(512, 7) \o TailBytes(4)>>),
       \* 7: two sectors, encrypted, the last one no whole words
       Member(NAME_A, <<EX, CO, EN>>, <<W(512 + TailLen)>>,
              <<FirstSectorPadded, TailBytes(TailLen)>>,
              <<Rep(512, 7) \o TailBytes(TailLen)>>),
       \* 8: two sectors and a checksum block
       Member(NAME_A, <<EX, CO, CR>>, <<W(512 + TailLen)>>,
              <<FirstSector, TailBytes(TailLen)>>,
              <<Rep(512, 7) \o TailBytes(TailLen)>>),
       \* 9: one sector stored as it is, whose bytes are 00 06
       Member(NAME_A, <<EX>>, <<W(2)>>, << <<0, 6>> >>, << <<0, 6>> >>),
       \* 10: one imploded sector of a member without COMPRESS
       Member(NAME_A, <<EX>>, <<W(9)>>, << <<0, 6, 3>> >>, <<Rep(9, 0)>>),
       \* 11: a block without EXISTS
       Member(NAME_A, <<CO>>, <<W(TailLen)>>, <<TailBytes(TailLen)>>, <<>>),
       \* 12: a block of archived_size 0
       Member(NAME_A, <<EX, SU>>, <<W(0)>>, <<>>, <<>>),
       \* 13: one unit of a codec that is not implemented (LZMA)
       Member(NAME_A, <<EX, SU, CO>>, <<W(9)>>, << <<18, 1, 2, 3>> >>, <<>>),
       \* 14: one unit whose first byte is no compression type
       Member(NAME_A, <<EX, SU, CO>>, <<W(9)>>, << <<5, 1, 2>> >>, <<>>),
       \* 15: a file of exactly one sector: the last sector is empty
       Member(NAME_A, <<EX, CO>>, <<W(512)>>, <<FirstSector, <<>> >>,
              <<Rep(512, 7)>>),
       \* 16: one unit, bzip2
       Member(NAME_A, <<EX, SU, CO>>, <<W(5)>>, << <<16, 9, 5>> >>, <<Rep(5, 9)>>),
       \* 17: the hash table entry of a deleted file: block_table_index is
       \* 0xFFFFFFFF
       [Member(NAME_A, <<EX, SU>>, <<W(2)>>, << <<104, 105>> >>, <<>>)
            EXCEPT !.index = <<Lit(2^16 - 1, 2^16 - 1)>>],
       \* 18: one sector, encrypted and not compressed, a word and a bit
       Member(NAME_A, <<EX, EN>>, <<W(4 + TailLen)>>, <<TailBytes(4 + TailLen)>>,
              <<TailBytes(4 + TailLen)>>) >>

\* A member with FIX_KEY, named d\a: two encrypted sectors.
FixKeyMember ==
    Member(NAME_D_A, <<EX, CO, EN, FK>>, <<W(512 + 4)>>,
           <<FirstSectorPadded, TailBytes(4)>>, <<Rep(512, 7) \o TailBytes(4)>>)

\* A FIX_KEY member whose size field makes the file key 0, of one encrypted
\* sector and a checksum block (in an archive whose sectors are 2^32 bytes).
ZeroKeyMember ==
    Member(NAME_A, <<EX, EN, FK, CR>>, <<>>, <<TailBytes(4)>>, <<>>)

\* '(listfile)' naming a and z, and an empty '(listfile)'
Listfile ==
    Member(STR_LISTFILE, <<EX>>, <<W(5)>>, << <<97, 13, 10, 122, 10>> >>,
           << <<97, 13, 10, 122, 10>> >>)
EmptyListfile == Member(STR_LISTFILE, <<EX>>, <<W(0)>>, << <<>> >>, << <<>> >>)

\* The largest user data of an MPQ\x1b archive of the model.
MaxUser == 1

Archive(prefix, user, version, shift, members) ==
    [prefix |-> prefix, user |-> user, version |-> version, shift |-> shift,
     members |-> members, cut |-> -1]

\* The archives and, for each, what the ttdecomp tool does.
Scenarios ==
    LET one(archive, tools) == {[archive |-> archive, ttdecomp |-> t] : t \in tools}
    IN  \* every member, in a plain archive with a listfile
        UNION {one(Archive("1a", 0, 0, 0, <<Subjects[i], Listfile>>),
                   IF i \in {9, 10} THEN Tools ELSE {"ok"})
               : i \in 1..Len(Subjects)}
        \* every header, for the member of two sectors
        \cup UNION {one(Archive(p, IF p \in {"1a", "bad"} THEN 0 ELSE u, v, 0,
                                <<Subjects[5], Listfile>>), {"ok"})
                    : p \in {"1a", "1b", "1b0", "bad"}, u \in 0..MaxUser, v \in {0, 1}}
        \* FIX_KEY, with and without user data
        \cup UNION {one(Archive(p, MaxUser, 0, 0, <<FixKeyMember, Listfile>>), {"ok"})
                    : p \in {"1a", "1b"}}
        \cup one(Archive("1a", 0, 0, 23, <<ZeroKeyMember, Listfile>>), {"ok"})
        \* no listfile, and an empty one
        \cup one(Archive("1a", 0, 0, 0, <<Subjects[1]>>), {"ok"})
        \cup one(Archive("1a", 0, 0, 0, <<Subjects[1], EmptyListfile>>), {"ok"})
        \* archives cut short
        \cup UNION {one([Archive(p, 0, 1, 0, <<Subjects[1], Listfile>>)
                            EXCEPT !.cut = c], {"ok"})
                    : p \in {"1a", "1b"}, c \in {2, 20, 40, 70}}

\* The byte source of a scenario.
SourceBytes(archive) ==
    IF archive.cut < 0 THEN ArchiveBytes(archive)
    ELSE Slice(ArchiveBytes(archive), 0, archive.cut)

\* The names read_file is called with: a, d\a, z and (listfile) as str, and
\* a as bytes.
Names == {Str(NAME_A), Str(NAME_D_A), Str(NAME_Z), Str(STR_LISTFILE), Bytes(NAME_A)}

\* The arguments extract is called with: None, [], ['a'], ['z', 'a'].
FileLists == {<<>>, << <<>> >>, << <<Str(NAME_A)>> >>,
              << <<Str(NAME_Z), Str(NAME_A)>> >>}

----------------------------------------------------------------------------
(* The archive object and its operations                                   *)

VARIABLES
    archive,      \* what the byte source was written from (not read by the program)
    data,         \* the bytes of self.file
    ttdecomp,     \* what the ttdecomp tool does
    status,       \* "new" before MPQArchive(...), then "open" or "failed"
    pos,          \* the position of self.file
    header,       \* self.header
    hash_table,   \* self.hash_table
    block_table,  \* self.block_table
    files,        \* self.files: <<>> for None, <<names>> for a list
    tmpfiles,     \* how many files of tempfile.mkstemp() exist in the file system
    ret           \* what the last operation was called with and returned

vars == <<archive, data, ttdecomp, status, pos, header, hash_table, block_table,
          files, tmpfiles, ret>>

\* The temporary files the model lets pile up: an operation that would leave
\* one more is not taken.
MaxTmpFiles == 2

\* The archive object, as read_file and extract read it.
Self == [data |-> data, pos |-> pos, header |-> header,
         hash_table |-> hash_table, block_table |-> block_table, files |-> files]

Init ==
    /\ \E sc \in Scenarios :
          /\ archive = sc.archive
          /\ data = SourceBytes(sc.archive)
          /\ ttdecomp = sc.ttdecomp
    /\ status = "new"
    /\ pos = 0
    /\ header = <<>>
    /\ hash_table = <<>>
    /\ block_table = <<>>
    /\ files = <<>>
    /\ tmpfiles = 0
    /\ ret = [op |-> "none"]

\* MPQArchive(file, listfile)
Open ==
    /\ status = "new"
    /\ \E listfile \in BOOLEAN :
          \E r \in {__init__(data, listfile, ttdecomp)} :
             /\ tmpfiles + r.tmp <= MaxTmpFiles
             /\ tmpfiles' = tmpfiles + r.tmp
             /\ status' = IF r.ok THEN "open" ELSE "failed"
             /\ pos' = r.pos
             /\ header' = IF r.ok THEN r.header ELSE header
             /\ hash_table' = IF r.ok THEN r.hash_table ELSE hash_table
             /\ block_table' = IF r.ok THEN r.block_table ELSE block_table
             /\ files' = IF r.ok THEN r.files ELSE files
             /\ ret' = [op |-> "open", listfile |-> listfile, ok |-> r.ok,
                        exc |-> r.exc, read_at |-> r.read_at]
    /\ UNCHANGED <<archive, data, ttdecomp>>

\* read_file, were `flags |= MPQ_FILE_COMPRESS` to act on the block entry
\* in the block table and not on a copy of its flags.
ReadFile_flags_in_place ==
    /\ status = "open"
    /\ \E filename \in Names, force_decompress \in BOOLEAN :
          \E r \in {read_file(Self, filename, force_decompress, ttdecomp)} :
             /\ tmpfiles + r.tmp <= MaxTmpFiles
             /\ tmpfiles' = tmpfiles + r.tmp
             /\ pos' = r.pos
             /\ ret' = [op |-> "read_file", filename |-> filename,
                        force_decompress |-> force_decompress, r |-> r]
             /\ block_table' =
                    IF \E k \in 1..Len(r.sectors) : Starts0006(r.sectors[k].plain)
                    THEN [i \in 1..Len(block_table) |->
                             IF block_table[i] = r.block[1]
                             THEN [block_table[i] EXCEPT
                                      !.flags = Or(@, MPQ_FILE_COMPRESS)]
                             ELSE block_table[i]]
                    ELSE block_table
    /\ UNCHANGED <<archive, data, ttdecomp, status, header, hash_table, files>>

\* archive.read_file(filename, force_decompress)
ReadFile ==
    /\ status = "open"
    /\ \E filename \in Names, force_decompress \in BOOLEAN :
          \E r \in {read_file(Self, filename, force_decompress, ttdecomp)} :
             /\ tmpfiles + r.tmp <= MaxTmpFiles
             /\ tmpfiles' = tmpfiles + r.tmp
             /\ pos' = r.pos
             /\ ret' = [op |-> "read_file", filename |-> filename,
                        force_decompress |-> force_decompress, r |-> r]
    /\ UNCHANGED <<archive, data, ttdecomp, status, header, hash_table,
                   block_table, files>>

\* archive.extract(files)
Extract ==
    /\ status = "open"
    /\ \E names \in FileLists :
          \E r \in {extract(Self, names, ttdecomp)} :
             /\ tmpfiles + r.tmp <= MaxTmpFiles
             /\ tmpfiles' = tmpfiles + r.tmp
             /\ pos' = r.pos
             /\ ret' = [op |-> "extract", files |-> names, r |-> r]
    /\ UNCHANGED <<archive, data, ttdecomp, status, header, hash_table,
                   block_table, files>>

Next == Open \/ ReadFile \/ Extract

Spec == Init /\ [][Next]_vars

----------------------------------------------------------------------------
(* What the properties below speak of                                      *)

\* The archive is one the format allows: whole, its header where the first
\* bytes say, and every member stored as the format stores its content.
WellFormed ==
    /\ archive.cut < 0
    /\ archive.prefix \in {"1a", "1b"}
    /\ \A i \in 1..Len(archive.members) : archive.members[i].content # <<>>

\* The hash table entries whose (hash_a, hash_b) are those of filename.
Matches(filename) ==
    {i \in 1..Len(hash_table) :
        /\ hash_table[i].hash_a = _hash(filename.s, "HASH_A")
        /\ hash_table[i].hash_b = _hash(filename.s, "HASH_B")}

\* The block_table_index of the first of them.
MatchedIndex(filename) ==
    hash_table[CHOOSE i \in Matches(filename) :
                   \A j \in Matches(filename) : i <= j].block_table_index

\* The index is a position of the block table.
InRange(index) == index[1] = 0 /\ index[2] < Len(block_table)

\* The block of the matched entry.
MatchedBlock(filename) == block_table[MatchedIndex(filename)[2] + 1]

\* The three cases of not-found: no entry matches, or the matched entry's
\* block has EXISTS clear, or archived_size 0.
NotFoundCase(filename) ==
    \/ Matches(filename) = {}
    \/ /\ InRange(MatchedIndex(filename))
       /\ \/ And(MatchedBlock(filename).flags, MPQ_FILE_EXISTS) = W(0)
          \/ MatchedBlock(filename).archived_size = W(0)

\* The file data of a block: archived_size bytes at its offset.
Blob(block) ==
    read(data, ToNat(Add(block.offset, header.offset)), ToNat(block.archived_size))

----------------------------------------------------------------------------
(* Properties                                                              *)

\* C1: read_file(name) returns the not-found value, and raises nothing, when
\* no hash table entry matches the hashes of name, or the matched entry's
\* block has EXISTS clear or archived_size 0; in every other case of a
\* well-formed archive it returns a byte string.  (Stated for a str name
\* and without force_decompress.)
C1_NotFoundOrBytes ==
    ret.op = "read_file" /\ ret.filename.t = "str" /\ ~ret.force_decompress =>
        /\ NotFoundCase(ret.filename) => ret.r.kind = "None"
        /\ WellFormed /\ ~NotFoundCase(ret.filename) => ret.r.kind = "bytes"

\* C2: for a name whose hashes match a hash table entry whose
\* block_table_index is the sentinel 0xFFFFFFFF, read_file returns
\* not-found; it does not fail with an out-of-range block table access.
C2_SentinelNotFound ==
    ret.op = "read_file" /\ Matches(ret.filename) # {}
    /\ MatchedIndex(ret.filename) = Lit(2^16 - 1, 2^16 - 1)
        => ret.r.kind = "None"

\* C3: on open, for the magic MPQ\x1a the archive header is read from file
\* offset 0 and header['offset'] is 0; for MPQ\x1b it is read from the
\* absolute offset mpq_header_offset, whatever its value, 0 too, and
\* header['offset'] is mpq_header_offset; for any other four bytes open
\* fails and there is no archive object.
C3_HeaderDiscrimination ==
    ret.op = "open" =>
        LET magic == Slice(data, 0, 4)
            mpq_header_offset == unpack_I(Slice(data, 8, 12))
        IN /\ magic = MAGIC_1A /\ ret.ok =>
                 ret.read_at = 0 /\ header.offset = W(0)
           /\ magic = MAGIC_1B /\ ret.ok =>
                 /\ ret.read_at = ToNat(mpq_header_offset)
                 /\ header.offset = mpq_header_offset
           /\ magic \notin {MAGIC_1A, MAGIC_1B} => ~ret.ok /\ status = "failed"

\* C4: extract(names) fails (RuntimeError) exactly when no names are given
\* and the archive was opened without its listfile; otherwise, when it
\* returns, the keys of the mapping are the names asked for (or those of the
\* listfile) and the value of each name is what read_file returns for it.
C4_ExtractFailsExactly ==
    ret.op = "extract" =>
        LET no_names == ret.files = <<>> \/ ret.files = << <<>> >>
            no_listfile == files = <<>>
            names == IF no_names THEN files[1] ELSE ret.files[1]
        IN /\ (ret.r.kind = "raise" /\ ret.r.exc = "RuntimeError")
                 <=> (no_names /\ no_listfile)
           /\ ret.r.kind = "dict" =>
                 /\ DOMAIN ret.r.val = {names[i] : i \in 1..Len(names)}
                 /\ \A f \in DOMAIN ret.r.val :
                       LET r == read_file(Self, f, FALSE, ttdecomp)
                       IN ret.r.val[f] = [kind |-> r.kind, val |-> r.val]

\* C5: the length of every byte string read_file returns for a member of a
\* well-formed archive is the size field of its block entry, unless a codec
\* that is not implemented handled a sector (the ttdecomp tool not failing).
C5_PayloadLength ==
    ret.op = "read_file" /\ WellFormed /\ ttdecomp # "nonzero"
    /\ ret.r.kind = "bytes" /\ ~ret.r.stub
        => W(Len(ret.r.val)) = ret.r.block[1].size

\* C6: the key of an encrypted block with FIX_KEY is
\* ((raw_key + block.offset) mod 2^32) XOR block.size, raw_key the TABLE hash
\* of the basename and block.offset the offset of the block entry, for every
\* base offset; without FIX_KEY it is raw_key; it lies in [0, 2^32).
C6_FileKey ==
    ret.op = "read_file" /\ ret.r.key # <<>> =>
        LET block == ret.r.block[1]
            raw_key == _hash(basename(replace_backslash(ret.filename.s)), "TABLE")
            key == ret.r.key[1]
        IN /\ IsU32(key)
           /\ key = IF And(block.flags, MPQ_FILE_FIX_KEY) # W(0)
                    THEN Xor(Mask32(Add(raw_key, block.offset)), block.size)
                    ELSE raw_key

\* C7: _decrypt(buf, key) returns as many bytes as buf has, the
\* len(buf) mod 4 bytes after the last whole word unchanged at the end.
\* (Stated of the sectors read_file decrypts.)
C7_DecryptKeepsLength ==
    ret.op = "read_file" /\ ret.r.key # <<>> =>
        \A k \in 1..Len(ret.r.sectors) :
            LET s == ret.r.sectors[k]
                whole == 4 * (Len(s.stored) \div 4)
            IN /\ Len(s.plain) = Len(s.stored)
               /\ Slice(s.plain, whole, Len(s.plain))
                     = Slice(s.stored, whole, Len(s.stored))

\* C8: once open has succeeded, no read_file and no extract, whatever it
\* returns or raises, changes the header, the hash table, the block table
\* or the names of the listfile (nor the bytes of the source): of the
\* archive object only the file position changes.
C8_TablesUnchanged ==
    [][status = "open" =>
          /\ header' = header
          /\ hash_table' = hash_table
          /\ block_table' = block_table
          /\ files' = files
          /\ data' = data
          /\ status' = status]_vars

\* A read of a sector that begins 00 06 has returned, on an archive opened
\* with its listfile.
C8_Witness ==
    /\ status = "open"
    /\ files # <<>>
    /\ ret.op = "read_file"
    /\ ret.r.kind = "bytes"
    /\ \E k \in 1..Len(ret.r.sectors) : Starts0006(ret.r.sectors[k].plain)

\* C9: for a block that is not SINGLE_UNIT the sector offset table has
\* (size div sector_size) + 2 entries, one more with SECTOR_CRC; the loop
\* takes the sectors 0 .. (size div sector_size) in order, sector i being
\* blob[positions[i] .. positions[i+1]); and for an ENCRYPTED block with a
\* key in [0, 2^32) the table is decrypted with (key - 1) mod 2^32 and
\* sector i with (key + i) mod 2^32.
C9_SectorLoop ==
    ret.op = "read_file" /\ ret.r.table # <<>> =>
        LET r == ret.r
            block == r.block[1]
            n == ToNat(FloorDivPow2(block.size, 9 + header.fields.sector_size_shift))
            crc == And(block.flags, MPQ_FILE_SECTOR_CRC) # W(0)
            raw_table == Slice(Blob(block), 0, 4 * Len(r.table))
        IN /\ Len(r.table) = n + 2 + (IF crc THEN 1 ELSE 0)
           /\ Len(r.sectors) <= n + 1
           /\ r.kind = "bytes" => Len(r.sectors) = n + 1
           /\ \A k \in 1..Len(r.sectors) :
                 /\ r.sectors[k].i = k - 1
                 /\ r.sectors[k].stored
                       = Slice(Blob(block), ToNat(r.table[k]), ToNat(r.table[k + 1]))
           /\ r.key # <<>> /\ IsU32(r.key[1]) =>
                 /\ r.table = unpack_positions(
                                  _decrypt(raw_table, Mask32(Sub(r.key[1], W(1)))))
                 /\ \A k \in 1..Len(r.sectors) :
                       r.sectors[k].plain
                          = _decrypt(r.sectors[k].stored,
                                     Mask32(Add(r.key[1], W(k - 1))))

\* C10: a sector goes to the codec only when COMPRESS is set (or the sector
\* begins 00 06) and force_decompress is asked or the sector is shorter
\* than the budget left; a sector that does not go to the codec is appended
\* as it is stored (decrypted), no byte added or removed, and the budget
\* goes down by the length of what was appended.
C10_CompressionPolicy ==
    ret.op = "read_file" =>
        \A k \in 1..Len(ret.r.sectors) :
            LET s == ret.r.sectors[k]
                flags == ret.r.block[1].flags
            IN /\ s.dispatched =>
                     /\ And(flags, MPQ_FILE_COMPRESS) # W(0) \/ Starts0006(s.plain)
                     /\ ret.force_decompress \/ Less(W(Len(s.plain)), s.budget)
               /\ ~s.dispatched =>
                     /\ s.written = s.plain
                     /\ k < Len(ret.r.sectors) =>
                           ret.r.sectors[k + 1].budget
                              = Sub(s.budget, W(Len(s.written)))

\* C11: on every path by which decompress exits after tempfile.mkstemp()
\* made the temporary file (the tool exits with 0, the tool exits with
\* another code, os.write raises, subprocess.run raises), the file is
\* unlinked by the time read_file returns or raises: no call leaves a
\* temporary file, so none exists after any operation.
C11_TempFileRemoved ==
    /\ ret.op = "read_file" => ret.r.tmp = 0
    /\ tmpfiles = 0
====
